---- MODULE Spec2Model ----
(***************************************************************************)
(* Model of src/src/diagnostics.cpp (naoqi_dcm_driver): the Diagnostics    *)
(* object, its constructor, publish() and getStatusMsg().                  *)
(*                                                                         *)
(* Readings are floats in the code; the model uses integers, which keeps   *)
(* every comparison the code makes (<, >, std::max, std::min) exact.       *)
(* publish() is split at the places where its control flow branches: the   *)
(* bulk query (raises / returns), one step per iteration of the joint loop *)
(* and the code after the loop.  Callers are serial (one publish() at a    *)
(* time, getStatusMsg() between two calls).                                *)
(***************************************************************************)
EXTENDS Integers, Sequences, FiniteSets, TLC

VARIABLES
    joints_all_names_,          \* std::vector<std::string>, fixed at construction
    temperature_error_level_,   \* float, fixed at construction
    connected,                  \* memory_proxy_ was obtained in the constructor
    status_,                    \* the running overall status (level, message)
    pc,                         \* "idle" | "query" | "loop" | "crashed"
    entry,                      \* status_.level when the current/last publish() was entered
    values,                     \* publish(): the converted response of getListData
    val,                        \* publish(): number of values consumed so far
    it_name,                    \* publish(): position in joints_all_names_ (1-based)
    msg,                        \* publish(): msg.status, the batch under construction
    acc,                        \* publish(): the accumulators declared at lines 85-92
    oob,                        \* publish(): a read past the end of values happened
    query,                      \* outcome of the bulk query of the current/last cycle
    published,                  \* messages handed to pub_->publish in the current/last cycle
    ret,                        \* value returned by the last finished publish()
    statusMsg                   \* value returned by getStatusMsg() since the last publish()

vars == <<joints_all_names_, temperature_error_level_, connected, status_, pc, entry,
          values, val, it_name, msg, acc, oob, query, published, ret, statusMsg>>

-----------------------------------------------------------------------------
(* Bounds and input sets *)

MaxJoints == 2

JointNames == {"LHand", "RShoulder"}

ErrorLevels == {60, 70}

Temperatures == {-3, 67, 68, 70}
Stiffnesses == {0, 1}
Currents == {0, 2}

\* what a read past the end of the response may yield when it does not fault
Garbage == {0, 70}

-----------------------------------------------------------------------------
(* diagnostic_msgs::DiagnosticStatus levels *)

OK == 0
WARN == 1
ERROR == 2

temperature_warn_level_ == 68

Max(a, b) == IF a >= b THEN a ELSE b
Min(a, b) == IF a <= b THEN a ELSE b

\* std::string::find(needle) != npos
RECURSIVE FindFrom(_, _, _)
FindFrom(s, needle, i) ==
    IF i + Len(needle) - 1 > Len(s) THEN FALSE
    ELSE IF SubSeq(s, i, i + Len(needle) - 1) = needle THEN TRUE
    ELSE FindFrom(s, needle, i + 1)

Contains(s, needle) == FindFrom(s, needle, 1)

\* the status_ set by the constructor and at the start of every publish()
DefaultStatus == [level |-> OK, message |-> "OK"]

\* the keys built by the constructor: three per joint, in joint order
RECURSIVE KeysOf(_)
KeysOf(names) ==
    IF names = <<>> THEN <<>>
    ELSE <<"Device/SubDeviceList/" \o Head(names) \o "/Temperature/Sensor/Value",
           "Device/SubDeviceList/" \o Head(names) \o "/Hardness/Actuator/Value",
           "Device/SubDeviceList/" \o Head(names) \o "/ElectricCurrent/Sensor/Value">>
         \o KeysOf(Tail(names))

keys_tocheck_ == KeysOf(joints_all_names_)

\* JointClass with the warn comparison written <= instead of <
JointClass_WarnInclusive(name, temperature, errorLevel) ==
    IF temperature <= temperature_warn_level_
    THEN [level |-> OK, message |-> "OK"]
    ELSE IF temperature < errorLevel
    THEN [level |-> WARN, message |-> "Hot"]
    ELSE [level |-> ERROR, message |-> "HIGH JOINT TEMPERATURE : " \o name]

\* JointClass with the joint name left out of the ERROR message
JointClass_NoName(name, temperature, errorLevel) ==
    IF temperature < temperature_warn_level_
    THEN [level |-> OK, message |-> "OK"]
    ELSE IF temperature < errorLevel
    THEN [level |-> WARN, message |-> "Hot"]
    ELSE [level |-> ERROR, message |-> "HIGH JOINT TEMPERATURE : "]

\* the level and message of a joint's record
JointClass(name, temperature, errorLevel) ==
    IF temperature < temperature_warn_level_
    THEN [level |-> OK, message |-> "OK"]
    ELSE IF temperature < errorLevel
    THEN [level |-> WARN, message |-> "Hot"]
    ELSE [level |-> ERROR, message |-> "HIGH JOINT TEMPERATURE : " \o name]

\* the record of one joint as pushed onto msg.status
JointStatus(name, temperature, stiffness, current, errorLevel) ==
    [name |-> "naoqi_dcm_driver_joints" \o name,
     hardware_id |-> name,
     level |-> JointClass(name, temperature, errorLevel).level,
     message |-> JointClass(name, temperature, errorLevel).message,
     kv |-> [Temperature |-> temperature,
             Stiffness |-> stiffness,
             ElectricCurrent |-> current]]

setMessageFromStatus(level) ==
    IF level = OK THEN "OK"
    ELSE IF level = WARN THEN "WARN"
    ELSE "ERROR"

\* setAggregatedMessage copying the level but not the message
setAggregatedMessage_LevelOnly(cur, status) ==
    IF status.level > cur.level
    THEN [level |-> status.level, message |-> cur.message]
    ELSE cur

\* setAggregatedMessage with the comparison written >= instead of >
setAggregatedMessage_GreaterEqual(cur, status) ==
    IF status.level >= cur.level
    THEN [level |-> status.level, message |-> status.message]
    ELSE cur

\* the new status_ after folding a record in
setAggregatedMessage(cur, status) ==
    IF status.level > cur.level
    THEN [level |-> status.level, message |-> status.message]
    ELSE cur

\* the accumulators as declared before the loop
InitAcc ==
    [maxTemperature |-> 0,
     maxStiffness |-> 0,
     minStiffness |-> 1,
     minStiffnessWoHands |-> 1,
     maxCurrent |-> 0,
     minCurrent |-> 10,
     hotJointsSS |-> <<>>,
     max_level |-> OK]

\* UpdateAcc with max_level overwritten by the joint's level instead of std::max
UpdateAcc_LastLevel(a, name, status, temperature, stiffness, current) ==
    [maxTemperature |-> Max(a.maxTemperature, temperature),
     maxStiffness |-> Max(a.maxStiffness, stiffness),
     minStiffness |-> Min(a.minStiffness, stiffness),
     minStiffnessWoHands |->
         IF ~Contains(name, "Hand")
         THEN Min(a.minStiffnessWoHands, stiffness)
         ELSE a.minStiffnessWoHands,
     maxCurrent |-> Max(a.maxCurrent, current),
     minCurrent |-> Min(a.minCurrent, current),
     hotJointsSS |->
         IF status.level >= WARN
         THEN Append(a.hotJointsSS, <<name, temperature>>)
         ELSE a.hotJointsSS,
     max_level |-> status.level]

\* the accumulators after one iteration of the loop;
\* hotJointsSS is kept as one <<name, temperature>> entry per line written
UpdateAcc(a, name, status, temperature, stiffness, current) ==
    [maxTemperature |-> Max(a.maxTemperature, temperature),
     maxStiffness |-> Max(a.maxStiffness, stiffness),
     minStiffness |-> Min(a.minStiffness, stiffness),
     minStiffnessWoHands |->
         IF ~Contains(name, "Hand")
         THEN Min(a.minStiffnessWoHands, stiffness)
         ELSE a.minStiffnessWoHands,
     maxCurrent |-> Max(a.maxCurrent, current),
     minCurrent |-> Min(a.minCurrent, current),
     hotJointsSS |->
         IF status.level >= WARN
         THEN Append(a.hotJointsSS, <<name, temperature>>)
         ELSE a.hotJointsSS,
     max_level |-> Max(a.max_level, status.level)]

\* the aggregate record built after the loop
AggregateStatus(a) ==
    [name |-> "naoqi_dcm_driver_joints:Status",
     hardware_id |-> "joints",
     level |-> a.max_level,
     message |-> setMessageFromStatus(a.max_level),
     kv |-> [HighestTemperature |-> a.maxTemperature,
             HighestStiffness |-> a.maxStiffness,
             LowestStiffness |-> a.minStiffness,
             LowestStiffnessWithoutHands |-> a.minStiffnessWoHands,
             HighestElectricCurrent |-> a.maxCurrent,
             LowestElectricCurrent |-> a.minCurrent,
             HotJoints |-> a.hotJointsSS]]

\* ReturnValue failing from WARN upwards
ReturnValue_Warn(st) == IF st.level >= WARN THEN FALSE ELSE TRUE

\* the value publish() returns after a published cycle
ReturnValue(st) == IF st.level >= ERROR THEN FALSE ELSE TRUE

-----------------------------------------------------------------------------
(* Inputs *)

RECURSIVE NameLists(_)
NameLists(n) ==
    IF n = 0 THEN {<<>>}
    ELSE NameLists(n - 1) \cup
         {Append(s, x) : s \in {t \in NameLists(n - 1) : Len(t) = n - 1}, x \in JointNames}

\* the readings a key at position p (1-based) of keys_tocheck_ may have
ReadingsAt(p) ==
    CASE p % 3 = 1 -> Temperatures
      [] p % 3 = 2 -> Stiffnesses
      [] OTHER -> Currents

\* the responses of exactly n values
RECURSIVE Responses(_)
Responses(n) ==
    IF n = 0 THEN {<<>>}
    ELSE {Append(s, v) : s \in Responses(n - 1), v \in ReadingsAt(n)}

-----------------------------------------------------------------------------
(* State machine *)

Init ==
    /\ joints_all_names_ \in NameLists(MaxJoints)
    /\ temperature_error_level_ \in ErrorLevels
    /\ connected \in BOOLEAN
    /\ status_ = DefaultStatus
    /\ pc = "idle"
    /\ entry = OK
    /\ values = <<>>
    /\ val = 0
    /\ it_name = 1
    /\ msg = <<>>
    /\ acc = InitAcc
    /\ oob = FALSE
    /\ query = "none"
    /\ published = <<>>
    /\ ret = "none"
    /\ statusMsg = "none"

\* PublishStart without the reset of status_ (lines 81-82 missing)
PublishStart_NoReset ==
    /\ pc = "idle"
    /\ entry' = status_.level
    /\ acc' = InitAcc
    /\ values' = <<>>
    /\ val' = 0
    /\ it_name' = 1
    /\ msg' = <<>>
    /\ oob' = FALSE
    /\ query' = "none"
    /\ published' = <<>>
    /\ ret' = "none"
    /\ statusMsg' = "none"
    /\ pc' = "query"
    /\ UNCHANGED <<joints_all_names_, temperature_error_level_, connected, status_>>

\* publish(), lines 77-92: the reset of status_ and the locals
PublishStart ==
    /\ pc = "idle"
    /\ entry' = status_.level
    /\ status_' = DefaultStatus
    /\ acc' = InitAcc
    /\ values' = <<>>
    /\ val' = 0
    /\ it_name' = 1
    /\ msg' = <<>>
    /\ oob' = FALSE
    /\ query' = "none"
    /\ published' = <<>>
    /\ ret' = "none"
    /\ statusMsg' = "none"
    /\ pc' = "query"
    /\ UNCHANGED <<joints_all_names_, temperature_error_level_, connected>>

\* publish(), lines 94-104, when getListData (or the conversion) raises:
\* always when memory_proxy_ was never obtained, possibly otherwise
PublishQueryRaises ==
    /\ pc = "query"
    /\ query' = "raised"
    /\ ret' = FALSE
    /\ pc' = "idle"
    /\ UNCHANGED <<joints_all_names_, temperature_error_level_, connected, status_, entry,
                   values, val, it_name, msg, acc, oob, published, statusMsg>>

\* publish(), lines 94-107, when getListData returns n values
PublishQueryReturns ==
    /\ pc = "query"
    /\ connected
    /\ \E n \in 0..Len(keys_tocheck_) : values' \in Responses(n)
    /\ query' = "returned"
    /\ pc' = "loop"
    /\ UNCHANGED <<joints_all_names_, temperature_error_level_, connected, status_, entry,
                   val, it_name, msg, acc, oob, published, ret, statusMsg>>

\* one iteration of the loop, lines 108-155, with the three readings it got
LoopBody(temperature, stiffness, current) ==
    LET name == joints_all_names_[it_name]
        status == JointStatus(name, temperature, stiffness, current,
                              temperature_error_level_)
    IN /\ msg' = Append(msg, status)
       /\ status_' = setAggregatedMessage(status_, status)
       /\ acc' = UpdateAcc(acc, name, status, temperature, stiffness, current)
       /\ val' = val + 3
       /\ it_name' = it_name + 1

\* an iteration whose three reads are inside values
ProcessJoint ==
    /\ pc = "loop"
    /\ it_name <= Len(joints_all_names_)
    /\ val + 3 <= Len(values)
    /\ LoopBody(values[val + 1], values[val + 2], values[val + 3])
    /\ UNCHANGED <<joints_all_names_, temperature_error_level_, connected, pc, entry,
                   values, oob, query, published, ret, statusMsg>>

\* values[i] (0-based i) when it may lie past the end: the set of results
ReadAt(i) == IF i < Len(values) THEN {values[i + 1]} ELSE Garbage

\* an iteration with a read past the end of values (operator[] is unchecked):
\* the read yields some value and the loop goes on
ProcessJointPastEnd ==
    /\ pc = "loop"
    /\ it_name <= Len(joints_all_names_)
    /\ val + 3 > Len(values)
    /\ \E t \in ReadAt(val), s \in ReadAt(val + 1), c \in ReadAt(val + 2) :
           LoopBody(t, s, c)
    /\ oob' = TRUE
    /\ UNCHANGED <<joints_all_names_, temperature_error_level_, connected, pc, entry,
                   values, query, published, ret, statusMsg>>

\* an iteration with a read past the end of values: the read faults
ProcessJointFault ==
    /\ pc = "loop"
    /\ it_name <= Len(joints_all_names_)
    /\ val + 3 > Len(values)
    /\ oob' = TRUE
    /\ pc' = "crashed"
    /\ UNCHANGED <<joints_all_names_, temperature_error_level_, connected, status_, entry,
                   values, val, it_name, msg, acc, query, published, ret, statusMsg>>

\* publish(), lines 157-179: aggregate record, publish, return
PublishFinish ==
    /\ pc = "loop"
    /\ it_name > Len(joints_all_names_)
    /\ msg' = Append(msg, AggregateStatus(acc))
    /\ published' = Append(published, msg')
    /\ ret' = ReturnValue(status_)
    /\ pc' = "idle"
    /\ UNCHANGED <<joints_all_names_, temperature_error_level_, connected, status_, entry,
                   values, val, it_name, acc, oob, query, statusMsg>>

getStatusMsg ==
    /\ pc = "idle"
    /\ statusMsg' = status_.message
    /\ UNCHANGED <<joints_all_names_, temperature_error_level_, connected, status_, pc, entry,
                   values, val, it_name, msg, acc, oob, query, published, ret>>

Next ==
    \/ PublishStart
    \/ PublishQueryRaises
    \/ PublishQueryReturns
    \/ ProcessJoint
    \/ ProcessJointPastEnd
    \/ ProcessJointFault
    \/ PublishFinish
    \/ getStatusMsg

Spec == Init /\ [][Next]_vars

-----------------------------------------------------------------------------
(* Vocabulary of the properties *)

NJoints == Len(joints_all_names_)

\* a publish() call has returned after its bulk query returned
CycleDone == pc = "idle" /\ query = "returned"

\* a publish() call has returned after its bulk query raised
CycleFailed == pc = "idle" /\ query = "raised"

\* positions of the per-joint records in a batch (the aggregate record is at NJoints + 1)
JointIdx(batch) == {i \in 1..Len(batch) : i <= NJoints}

\* the greatest level among the per-joint records of a batch, OK when there are none
MaxJointLevel(batch) ==
    IF \E i \in JointIdx(batch) : batch[i].level = ERROR THEN ERROR
    ELSE IF \E i \in JointIdx(batch) : batch[i].level = WARN THEN WARN
    ELSE OK

\* the aggregate record of the batch of a finished cycle
Aggregate == msg[Len(msg)]

-----------------------------------------------------------------------------
(* C1: with an error threshold E above 68, every per-joint record built by  *)
(* publish() has level OK when its temperature t is below 68, WARN when     *)
(* 68 <= t < E and ERROR when t >= E, whatever its stiffness and current.   *)
C1_Classification ==
    temperature_error_level_ > 68 =>
        \A i \in JointIdx(msg) :
            LET t == msg[i].kv.Temperature
            IN msg[i].level = (IF t < 68 THEN OK
                               ELSE IF t < temperature_error_level_ THEN WARN
                               ELSE ERROR)

\* a batch holding a WARN record and an ERROR record that differ in stiffness or current
C1_Witness ==
    /\ ~oob
    /\ temperature_error_level_ > 68
    /\ \E i, j \in JointIdx(msg) :
          /\ msg[i].level = WARN
          /\ msg[j].level = ERROR
          /\ msg[i].kv.Stiffness # msg[j].kv.Stiffness

C3_Aggregate ==
    CycleDone =>
        /\ Aggregate.level = MaxJointLevel(msg)
        /\ Aggregate.message = (CASE Aggregate.level = OK -> "OK"
                                  [] Aggregate.level = WARN -> "WARN"
                                  [] Aggregate.level = ERROR -> "ERROR")

\* a finished cycle whose first joint is WARN and whose last joint is OK
C3_Witness ==
    /\ CycleDone
    /\ ~oob
    /\ NJoints = 2
    /\ msg[1].level = WARN
    /\ msg[2].level = OK
    /\ Aggregate.message = "WARN"

(* C4: a cycle whose bulk query raises returns false, publishes nothing     *)
(* (no batch, no record) and leaves status_ at level OK, message "OK", so   *)
(* that getStatusMsg() then returns "OK" whatever the cycle before it was.  *)
C4_QueryFailure ==
    CycleFailed =>
        /\ ret = FALSE
        /\ published = <<>>
        /\ msg = <<>>
        /\ status_ = [level |-> OK, message |-> "OK"]
        /\ statusMsg \in {"none", "OK"}

\* a failed cycle entered at level ERROR, getStatusMsg() called after it
C4_Witness ==
    /\ CycleFailed
    /\ connected
    /\ entry = ERROR
    /\ statusMsg = "OK"

(* C5 as stated: a cycle whose query returned returns false exactly when a  *)
(* joint's temperature of that cycle is >= the error threshold (stated for  *)
(* the cycles whose reads all lie inside the response).                     *)
C5_Original ==
    (CycleDone /\ ~oob) =>
        (ret = FALSE <=>
            \E i \in JointIdx(msg) : msg[i].kv.Temperature >= temperature_error_level_)

(* C5 amended: a cycle whose query returned returns false exactly when a    *)
(* joint's temperature of that cycle is >= the error threshold and >= the   *)
(* warn threshold 68 (that is, a joint is at level ERROR), whatever level   *)
(* status_ had when the cycle was entered; a cycle whose worst joint is     *)
(* WARN returns true.                                                       *)
C5_Return ==
    CycleDone =>
        /\ ret = FALSE <=>
              \E i \in JointIdx(msg) :
                  /\ msg[i].kv.Temperature >= temperature_error_level_
                  /\ msg[i].kv.Temperature >= 68
        /\ ret = FALSE <=> MaxJointLevel(msg) = ERROR
        /\ MaxJointLevel(msg) = WARN => ret = TRUE

\* a cycle entered at level ERROR whose worst joint is WARN, returning true
C5_Witness ==
    /\ ~oob
    /\ CycleDone
    /\ entry = ERROR
    /\ MaxJointLevel(msg) = WARN
    /\ ret = TRUE

\* the message of the first per-joint record at the batch's greatest level
FirstWorstMessage(batch) ==
    LET i == CHOOSE k \in JointIdx(batch) :
                 /\ batch[k].level = MaxJointLevel(batch)
                 /\ \A j \in JointIdx(batch) :
                        batch[j].level = MaxJointLevel(batch) => k <= j
    IN batch[i].message

(* C6 as stated: after a cycle whose query returned, getStatusMsg() returns *)
(* the message of the aggregate record published in that cycle (stated for *)
(* the cycles whose reads all lie inside the response).                     *)
C6_Original ==
    (CycleDone /\ ~oob /\ statusMsg # "none") => statusMsg = Aggregate.message

(* C6 amended: after a cycle whose query returned, getStatusMsg() returns   *)
(* "OK" when every joint of the cycle is OK and otherwise the message of    *)
(* the first per-joint record that has the cycle's greatest level ("Hot" or *)
(* "HIGH JOINT TEMPERATURE : <joint>"); before any such cycle, and after a  *)
(* cycle whose query raised, it returns "OK".                               *)
C6_StatusMsg ==
    (pc = "idle" /\ statusMsg # "none") =>
        statusMsg = (IF query = "returned" /\ MaxJointLevel(msg) # OK
                     THEN FirstWorstMessage(msg)
                     ELSE "OK")

\* getStatusMsg() after a cycle with two ERROR joints of different names
C6_Witness ==
    /\ ~oob
    /\ CycleDone
    /\ NJoints = 2
    /\ msg[1].level = ERROR
    /\ msg[2].level = ERROR
    /\ joints_all_names_[1] # joints_all_names_[2]
    /\ statusMsg = msg[1].message

\* the greatest / least of a non-empty finite set of integers
SetMax(S) == CHOOSE x \in S : \A y \in S : y <= x
SetMin(S) == CHOOSE x \in S : \A y \in S : x <= y

\* positions of the joints whose name does not contain "Hand"
NoHandIdx == {i \in 1..NJoints : \A k \in 1..(Len(joints_all_names_[i]) - 3) :
                 SubSeq(joints_all_names_[i], k, k + 3) # "Hand"}

(* C7: in a cycle whose query returned (with at least one joint, and with   *)
(* every read inside the response), the statistics of the aggregate record  *)
(* are the true extrema of the cycle's readings: greatest temperature,      *)
(* greatest/least stiffness, least stiffness over the joints whose name     *)
(* does not contain "Hand", greatest/least current.                         *)
C7_Extrema ==
    (CycleDone /\ ~oob /\ NJoints >= 1) =>
        LET J == 1..NJoints
            T == {msg[i].kv.Temperature : i \in J}
            S == {msg[i].kv.Stiffness : i \in J}
            C == {msg[i].kv.ElectricCurrent : i \in J}
            SW == {msg[i].kv.Stiffness : i \in NoHandIdx}
        IN /\ Aggregate.kv.HighestTemperature = SetMax(T)
           /\ Aggregate.kv.HighestStiffness = SetMax(S)
           /\ Aggregate.kv.LowestStiffness = SetMin(S)
           /\ SW # {} => Aggregate.kv.LowestStiffnessWithoutHands = SetMin(SW)
           /\ Aggregate.kv.HighestElectricCurrent = SetMax(C)
           /\ Aggregate.kv.LowestElectricCurrent = SetMin(C)

(* C8: every cycle whose query returned hands exactly one batch to the      *)
(* publisher, holding the NJoints per-joint records in the order of         *)
(* joints_all_names_, the i-th built from values 3i, 3i+1, 3i+2 (0-based)   *)
(* of the response, followed by the aggregate record.                       *)
C8_OneBatch ==
    (query = "returned" /\ pc \in {"idle", "crashed"}) =>
        /\ Len(published) = 1
        /\ Len(published[1]) = NJoints + 1
        /\ \A i \in 1..NJoints :
              /\ 3 * i <= Len(values)
              /\ published[1][i].hardware_id = joints_all_names_[i]
              /\ published[1][i].kv = [Temperature |-> values[3 * i - 2],
                                       Stiffness |-> values[3 * i - 1],
                                       ElectricCurrent |-> values[3 * i]]
        /\ published[1][NJoints + 1].hardware_id = "joints"
        /\ published[1][NJoints + 1].name = "naoqi_dcm_driver_joints:Status"

(* C9: inside a cycle, after the reset, status_.level never decreases, and  *)
(* folding a joint's record in changes status_ only when the record's level *)
(* is strictly above it (status_ then takes the record's level and message).*)
C9_Escalation ==
    [][ /\ (pc \in {"query", "loop"} => status_'.level >= status_.level)
        /\ (pc = "loop" /\ Len(msg') = Len(msg) + 1 /\ it_name <= NJoints) =>
               LET r == msg'[Len(msg')]
               IN IF r.level > status_.level
                  THEN status_' = [level |-> r.level, message |-> r.message]
                  ELSE status_' = status_ ]_vars

\* two ERROR joints of different names folded in: status_ still carries the first one's message
C9_Witness ==
    /\ ~oob
    /\ pc = "loop"
    /\ Len(msg) = 2
    /\ msg[1].level = ERROR
    /\ msg[2].level = ERROR
    /\ msg[1].message # msg[2].message
    /\ status_.message = msg[1].message

(* C10: in a cycle whose query returned, every read of the response is at   *)
(* an index below its length, for every length of the response.             *)
C10_InBounds == ~oob

====
